---- MODULE Spec2Model ----
(***************************************************************************)
(* State-machine model of the Simon Says game engine (class SimonGame,     *)
(* src/src/game/simon_game.cpp, the pass-and-play version at lines         *)
(* 529-1270) with its difficulty table (src/src/game/difficulty_modes.h).  *)
(*                                                                         *)
(* Time.  The engine reads its two timers only through the differences     *)
(* millis() - lastInputTime and millis() - stateStartTime, so the model    *)
(* keeps those two differences (inputElapsed, stateTime), in milliseconds, *)
(* saturated at TimeCap.  Between two operations the clock advances by a   *)
(* multiple of TimeStep; a difference is advanced in the states whose      *)
(* handler reads it (see ReadsInputTimer, ReadsStateTimer).                *)
(*                                                                         *)
(* Lengths.  The sequence lengths of the difficulty table and the size of   *)
(* the sequence buffer are cut (see ScaledLen) so that whole games fit in   *)
(* the state space.                                                        *)
(***************************************************************************)
EXTENDS Naturals, Integers, FiniteSets, Sequences, TLC

\* ------------------------------------------------------------------ bounds
MaxLen == 2
TimeStep == 1000
MaxStoredBest == 1
WrapLead == 6

\* ------------------------------------------------------- program constants
RED == 0
GREEN == 1
NONE == 255
MEDIUM == 1
NUM_DIFFICULTIES == 4
DEFAULT_DIFFICULTY == 1
MAX_SEQUENCE_LENGTH == 31
MAX_PLAYERS == 4
MIN_PLAYERS == 2
INPUT_TIMEOUT_MS == 5000
BUTTON_DEBOUNCE_MS == 50
DEEP_SLEEP_TIMEOUT_MS == 120000
GAME_OVER_HOLD_MS == 2000
HIGH_SCORE_HOLD_MS == 2000
PLAYBACK_LEAD_MS == 500

DIFF_EASY_SPEED == 800
DIFF_EASY_DURATION == 600
DIFF_EASY_MAX_LENGTH == 8
DIFF_EASY_WINDOW == 3000
DIFF_MEDIUM_SPEED == 600
DIFF_MEDIUM_DURATION == 400
DIFF_MEDIUM_MAX_LENGTH == 14
DIFF_MEDIUM_WINDOW == 2000
DIFF_HARD_SPEED == 400
DIFF_HARD_DURATION == 250
DIFF_HARD_MAX_LENGTH == 20
DIFF_HARD_WINDOW == 1500
DIFF_EXPERT_SPEED == 250
DIFF_EXPERT_DURATION == 150
DIFF_EXPERT_MAX_LENGTH == 31
DIFF_EXPERT_WINDOW == 1000

\* ------------------------------------------------------------------- types
\* The playable colors.  The source has four (RED, GREEN, BLUE, YELLOW), all
\* treated alike; the model plays with two of them.
Color == {RED, GREEN}
GameState ==
  {"IDLE", "SHOWING_SEQUENCE", "WAITING_INPUT", "INPUT_CORRECT",
   "INPUT_WRONG", "GAME_OVER", "HIGH_SCORE"}
GameMode == {"SINGLE_PLAYER", "PASS_AND_PLAY"}

\* What the constructor's DataStorage* can be: nullptr, a storage whose
\* recordGame() returns false on every write, a storage that works.
StorageKinds == {"none", "failing", "working"}

\* A length of the source, cut for the model: a length up to the easiest
\* tier's is cut to MaxLen, a longer one to MaxLen + 1, so that the easiest
\* tier stays shorter than the other tiers and than the sequence buffer, as
\* it is in the source (8 < 14 <= 31).
ScaledLen(n) ==
  IF n > DIFF_EASY_MAX_LENGTH THEN MaxLen + 1
  ELSE IF n > MaxLen THEN MaxLen ELSE n

\* The sequence buffer has MaxSeq slots, indexed 0 .. MaxSeq-1.
MaxSeq == ScaledLen(MAX_SEQUENCE_LENGTH)
SeqIndex == 0 .. (MaxSeq - 1)
PlayerIndex == 0 .. (MAX_PLAYERS - 1)

\* uint8_t arithmetic
U8(n) == n % 256

\* ------------------------------------------------------- difficulty table
\* The table of getDifficultySettings, as config.h fills it.
presets ==
  [level \in 0 .. (NUM_DIFFICULTIES - 1) |->
     CASE level = 0 ->
            [name |-> "Easy", sequenceSpeed |-> DIFF_EASY_SPEED,
             toneDuration |-> DIFF_EASY_DURATION,
             maxLength |-> DIFF_EASY_MAX_LENGTH,
             timingWindow |-> DIFF_EASY_WINDOW]
       [] level = 1 ->
            [name |-> "Medium", sequenceSpeed |-> DIFF_MEDIUM_SPEED,
             toneDuration |-> DIFF_MEDIUM_DURATION,
             maxLength |-> DIFF_MEDIUM_MAX_LENGTH,
             timingWindow |-> DIFF_MEDIUM_WINDOW]
       [] level = 2 ->
            [name |-> "Hard", sequenceSpeed |-> DIFF_HARD_SPEED,
             toneDuration |-> DIFF_HARD_DURATION,
             maxLength |-> DIFF_HARD_MAX_LENGTH,
             timingWindow |-> DIFF_HARD_WINDOW]
       [] OTHER ->
            [name |-> "Expert", sequenceSpeed |-> DIFF_EXPERT_SPEED,
             toneDuration |-> DIFF_EXPERT_DURATION,
             maxLength |-> DIFF_EXPERT_MAX_LENGTH,
             timingWindow |-> DIFF_EXPERT_WINDOW]]

\* The same table with the lengths cut, which the engine of the model plays.
difficulties ==
  [level \in 0 .. (NUM_DIFFICULTIES - 1) |->
     [presets[level] EXCEPT !.maxLength = ScaledLen(@)]]

\* The lookup that reads the table from its far end.
lookup_Reversed(table, level) ==
  IF level < NUM_DIFFICULTIES THEN table[NUM_DIFFICULTIES - 1 - level]
  ELSE table[DEFAULT_DIFFICULTY]

\* The lookup of getDifficultySettings in a table.
lookup(table, level) ==
  IF level < NUM_DIFFICULTIES THEN table[level]
  ELSE table[DEFAULT_DIFFICULTY]

\* getDifficultySettings whose fallback is the first tier of the table.
getDifficultySettings_FirstTier(level) ==
  IF level < NUM_DIFFICULTIES THEN difficulties[level]
  ELSE difficulties[0]

getDifficultySettings(level) == lookup(difficulties, level)

\* The values of a DifficultyLevel (enum : uint8_t).
DifficultyLevelValues == 0 .. 255

\* ------------------------------------------------------------------- state
VARIABLES
  state,                 \* GameState
  currentDifficulty,     \* DifficultyLevel
  settings,              \* DifficultySettings of the running game
  gameMode,              \* GameMode
  players,               \* PlayerScore players[4]: score, hasPlayed
  numPlayers,
  currentPlayerIndex,
  masterSequenceLength,
  sequence,              \* Color sequence[MAX_SEQUENCE_LENGTH]
  sequenceLength,
  currentStep,
  currentScore,
  highScores,            \* uint8_t highScores[NUM_DIFFICULTIES]
  stateTime,             \* millis() - stateStartTime
  inputElapsed,          \* millis() - lastInputTime
  storage,               \* the DataStorage* handed to the engine (StorageKinds)
  playback,              \* TRUE while update() is inside playSequence()
  buttonStates,          \* ButtonHandler: ButtonState buttonStates[NUM_COLORS]
  pins,                  \* the level of each button's GPIO pin
  powerManager,          \* PowerManager, and where loop() is with it
  clock,                 \* millis() and the engine's two time stamps, as uint32_t
  ev                     \* what the last operation did (observation only)

vars ==
  <<state, currentDifficulty, settings, gameMode, players, numPlayers,
    currentPlayerIndex, masterSequenceLength, sequence, sequenceLength,
    currentStep, currentScore, highScores, stateTime, inputElapsed,
    storage, playback, buttonStates, pins, powerManager, clock, ev>>

\* The objects around the engine, which the specifications of the engine
\* alone leave as they were constructed.
periphery == <<buttonStates, pins, powerManager, clock>>

\* The record of one operation: which call it was, the edge the button handler
\* reported in that cycle (NONE when there was none, or when the handler does
\* not look), whether the handler asked for it with btn->getJustPressed(), the
\* timer reading the handler tested (millis() - lastInputTime in
\* handleWaitingInput, getStateTime() in handleGameOver, 0 elsewhere),
\* whether setState(HIGH_SCORE) ran, how many sessions recordGameSession()
\* handed to the storage, and the numeric argument (numPlayers_, difficulty)
\* of a call that is observed together with its argument (0 otherwise).
Event(op, pressed, polled, elapsed, hs, rec) ==
  [op |-> op, pressed |-> pressed, polled |-> polled, elapsed |-> elapsed,
   highScore |-> hs, recorded |-> rec, arg |-> 0]

\* An operation that is not update(), or a handler that reads no input.
Did(op, hs, rec) == Event(op, NONE, FALSE, 0, hs, rec)

\* ------------------------------------------------------------------ helpers
\* The timers saturate one step above the longest input window.
TimeCap == DIFF_EASY_WINDOW + TimeStep
Sat(t) == IF t > TimeCap THEN TimeCap ELSE t

EmptySequence == [i \in SeqIndex |-> NONE]

InitialPlayers == [i \in PlayerIndex |-> [score |-> 0, hasPlayed |-> FALSE]]

\* setDifficulty: the pair (currentDifficulty, settings) after the call.
setDifficulty(difficulty) ==
  IF difficulty < NUM_DIFFICULTIES
  THEN [currentDifficulty |-> difficulty,
        settings |-> getDifficultySettings(difficulty)]
  ELSE [currentDifficulty |-> currentDifficulty, settings |-> settings]

\* extendSequence that forgets sequenceLength++ when it reuses a stored color.
extendSequence_NoGrowOnReuse(seq, len, master, mode, color) ==
  IF len < MaxSeq
  THEN IF mode = "PASS_AND_PLAY" /\ len < master
       THEN [sequence |-> seq, sequenceLength |-> len,
             masterSequenceLength |-> master]
       ELSE [sequence |-> [seq EXCEPT ![len] = color],
             sequenceLength |-> len + 1,
             masterSequenceLength |->
               IF mode = "PASS_AND_PLAY" /\ len + 1 > master
               THEN len + 1 ELSE master]
  ELSE [sequence |-> seq, sequenceLength |-> len,
        masterSequenceLength |-> master]

\* extendSequence that never raises masterSequenceLength.
extendSequence_NoMasterUpdate(seq, len, master, mode, color) ==
  IF len < MaxSeq
  THEN IF mode = "PASS_AND_PLAY" /\ len < master
       THEN [sequence |-> seq, sequenceLength |-> len + 1,
             masterSequenceLength |-> master]
       ELSE [sequence |-> [seq EXCEPT ![len] = color],
             sequenceLength |-> len + 1,
             masterSequenceLength |-> master]
  ELSE [sequence |-> seq, sequenceLength |-> len,
        masterSequenceLength |-> master]

\* extendSequence without the reuse branch: every extension draws a new color.
extendSequence_AlwaysGenerate(seq, len, master, mode, color) ==
  IF len < MaxSeq
  THEN [sequence |-> [seq EXCEPT ![len] = color],
        sequenceLength |-> len + 1,
        masterSequenceLength |->
          IF mode = "PASS_AND_PLAY" /\ len + 1 > master
          THEN len + 1 ELSE master]
  ELSE [sequence |-> seq, sequenceLength |-> len,
        masterSequenceLength |-> master]

\* extendSequence that stores the new color in the first slot.
extendSequence_WritesFirstSlot(seq, len, master, mode, color) ==
  IF len < MaxSeq
  THEN IF mode = "PASS_AND_PLAY" /\ len < master
       THEN [sequence |-> seq, sequenceLength |-> len + 1,
             masterSequenceLength |-> master]
       ELSE [sequence |-> [seq EXCEPT ![0] = color],
             sequenceLength |-> len + 1,
             masterSequenceLength |->
               IF mode = "PASS_AND_PLAY" /\ len + 1 > master
               THEN len + 1 ELSE master]
  ELSE [sequence |-> seq, sequenceLength |-> len,
        masterSequenceLength |-> master]

\* extendSequence on (seq, len, master) in the given mode; color is the value
\* generateRandomColor() would return.
extendSequence(seq, len, master, mode, color) ==
  IF len < MaxSeq
  THEN IF mode = "PASS_AND_PLAY" /\ len < master
       THEN [sequence |-> seq, sequenceLength |-> len + 1,
             masterSequenceLength |-> master]
       ELSE [sequence |-> [seq EXCEPT ![len] = color],
             sequenceLength |-> len + 1,
             masterSequenceLength |->
               IF mode = "PASS_AND_PLAY" /\ len + 1 > master
               THEN len + 1 ELSE master]
  ELSE [sequence |-> seq, sequenceLength |-> len,
        masterSequenceLength |-> master]

\* validateInput that compares with the first element instead of the cursor's.
validateInput_FirstElement(input) ==
  IF currentStep >= sequenceLength THEN FALSE
  ELSE input = sequence[0]

\* validateInput that looks at the length first: the press on the last element
\* of the round of maximum length passes whatever its color.
validateInput_LengthFirst(input) ==
  IF currentStep >= sequenceLength THEN FALSE
  ELSE \/ (currentStep = sequenceLength - 1
             /\ sequenceLength >= settings.maxLength)
       \/ input = sequence[currentStep]

validateInput(input) ==
  IF currentStep >= sequenceLength THEN FALSE
  ELSE input = sequence[currentStep]

\* allPlayersFinished that looks at all four slots instead of numPlayers.
allPlayersFinished_WholeTable(ps) ==
  \A i \in PlayerIndex : ps[i].hasPlayed

allPlayersFinished(ps) ==
  \A i \in PlayerIndex : i < numPlayers => ps[i].hasPlayed

\* nextPlayer: the index the do-while loop stops at, starting from cur.
RECURSIVE nextPlayerFrom(_, _, _)
nextPlayerFrom(ps, startIndex, cur) ==
  LET nxt == (cur + 1) % numPlayers IN
  IF nxt = startIndex /\ ps[nxt].hasPlayed THEN nxt
  ELSE IF ~ps[nxt].hasPlayed THEN nxt
  ELSE nextPlayerFrom(ps, startIndex, nxt)

\* nextPlayer that steps to the previous index instead of searching forward.
nextPlayer_Previous(ps) == (currentPlayerIndex + numPlayers - 1) % numPlayers

nextPlayer(ps) == nextPlayerFrom(ps, currentPlayerIndex, currentPlayerIndex)

\* loadHighScores that skips the zeroing when there is no storage.
loadHighScores_NoDefault(stor, best) ==
  [t \in 0 .. (NUM_DIFFICULTIES - 1) |-> best]

\* loadHighScores with storage stor, whose best stored score of every tier is
\* best: 0 everywhere without storage.
loadHighScores(stor, best) ==
  [t \in 0 .. (NUM_DIFFICULTIES - 1) |-> IF stor = "none" THEN 0 ELSE best]

\* ---------------------------------------------------------------- uint32_t
\* A uint32_t is kept as its two 16-bit halves <<high, low>>, so that the
\* arithmetic modulo 2^32 of millis() and of the time stamps is exact.
HALF == 65536
U32(n) == <<(n \div HALF) % HALF, n % HALF>>

\* a + n modulo 2^32, for a uint32_t a and a natural number n.
add32(a, n) ==
  LET low == a[2] + (n % HALF)
  IN <<(a[1] + (n \div HALF) + (low \div HALF)) % HALF, low % HALF>>

\* The difference that is 0 whenever the clock reads less than the time stamp.
sub32_NoWrap(a, b) ==
  IF a[1] < b[1] \/ (a[1] = b[1] /\ a[2] < b[2]) THEN <<0, 0>>
  ELSE LET borrow == IF a[2] < b[2] THEN 1 ELSE 0
       IN <<(a[1] - b[1] - borrow + HALF) % HALF,
            (a[2] - b[2] + HALF) % HALF>>

\* a - b modulo 2^32, as the unsigned subtraction of two uint32_t gives it.
sub32(a, b) ==
  LET borrow == IF a[2] < b[2] THEN 1 ELSE 0
  IN <<(a[1] - b[1] - borrow + HALF) % HALF, (a[2] - b[2] + HALF) % HALF>>

\* ------------------------------------------------------ the objects around
\* ButtonHandler's constructor: every button released; lastChangeTime is 0,
\* which the end of setup() is more than the debounce time away from.
\* sinceChange is millis() - lastChangeTime, saturated at BUTTON_DEBOUNCE_MS.
InitialButtonState ==
  [current |-> FALSE, previous |-> FALSE, raw |-> FALSE,
   sinceChange |-> BUTTON_DEBOUNCE_MS]

\* A pin: whether the button pulls it LOW (pressed), and for how long its
\* level has differed from the debounced state of the button, saturated at
\* BUTTON_DEBOUNCE_MS.
InitialPin == [pressed |-> FALSE, differsFor |-> 0]

\* PowerManager after begin(): timeSinceActivity is millis() -
\* lastActivityTime; entering is TRUE while loop() is inside enterDeepSleep()
\* before esp_deep_sleep_start(), asleep once that has been called.
InitialPowerManager ==
  [timeSinceActivity |-> 0, entering |-> FALSE, asleep |-> FALSE]

\* The clock and the engine's two time stamps, with the time that has really
\* passed since each stamp was taken (sinceInput, sinceState) and at the last
\* timer test (tested), in milliseconds, saturated like the timers.
InitialClock ==
  [millis |-> U32(0), lastInputTime |-> U32(0), stateStartTime |-> U32(0),
   sinceInput |-> 0, sinceState |-> 0, tested |-> 0]

InitPeriphery ==
  /\ buttonStates = [c \in Color |-> InitialButtonState]
  /\ pins = [c \in Color |-> InitialPin]
  /\ powerManager = InitialPowerManager
  /\ clock = InitialClock

\* ------------------------------------------------------------------- Init
\* The engine after its constructor and begin(), with a working storage.
Init ==
  /\ state = "IDLE"
  /\ currentDifficulty = 0
  /\ settings = getDifficultySettings(0)
  /\ gameMode = "SINGLE_PLAYER"
  /\ players = InitialPlayers
  /\ numPlayers = 0
  /\ currentPlayerIndex = 0
  /\ masterSequenceLength = 0
  /\ sequence = EmptySequence
  /\ sequenceLength = 0
  /\ currentStep = 0
  /\ currentScore = 0
  /\ storage = "working"
  /\ \E best \in 0 .. MaxStoredBest :
       highScores = loadHighScores("working", best)
  /\ stateTime = 0
  /\ inputElapsed = 0
  /\ playback = FALSE
  /\ InitPeriphery
  /\ ev = Did("begin", FALSE, 0)

\* ------------------------------------------------------------- operations
DifficultyInputs == {0, NUM_DIFFICULTIES}
PlayerCountInputs == {MIN_PLAYERS - 1, MIN_PLAYERS + 1, MAX_PLAYERS + 1}
PressInputs == Color \cup {NONE}
TimeSteps == {TimeStep, 2 * TimeStep}

\* The timeout test against the tone duration instead of the input window.
inputTimedOut_ToneDuration(ie) == ie > settings.toneDuration

\* The timeout test against the global INPUT_TIMEOUT_MS instead of the tier's
\* window.
inputTimedOut_GlobalTimeout(ie) == ie > INPUT_TIMEOUT_MS

\* The timeout test of handleWaitingInput, on ie = millis() - lastInputTime.
inputTimedOut(ie) == ie > settings.timingWindow

\* updateHighScore that also takes a tie for a new high score.
updateHighScore_OnTie(score) ==
  IF score >= highScores[currentDifficulty]
  THEN [highScores |-> [highScores EXCEPT ![currentDifficulty] = score],
        celebrate |-> state # "HIGH_SCORE"]
  ELSE [highScores |-> highScores, celebrate |-> FALSE]

\* updateHighScore that stores the final score whatever the stored best is.
updateHighScore_Unconditional(score) ==
  [highScores |-> [highScores EXCEPT ![currentDifficulty] = score],
   celebrate |-> score > highScores[currentDifficulty] /\ state # "HIGH_SCORE"]

\* updateHighScore for a final score: the table afterwards, and whether
\* setState(HIGH_SCORE) ran.
updateHighScore(score) ==
  IF score > highScores[currentDifficulty]
  THEN [highScores |-> [highScores EXCEPT ![currentDifficulty] = score],
        celebrate |-> state # "HIGH_SCORE"]
  ELSE [highScores |-> highScores, celebrate |-> FALSE]

\* recordGameSession with storage stor: the number of sessions handed to
\* storage->recordGame(), whose result goes to the debug log only.
recordGameSession(stor) == IF stor = "none" THEN 0 ELSE 1

\* startGame(difficulty); ie is millis() - lastInputTime at the call.
startGame(difficulty, color, ie, e) ==
  LET d == setDifficulty(difficulty)
      x == extendSequence(EmptySequence, 0, masterSequenceLength, gameMode, color)
  IN /\ currentDifficulty' = d.currentDifficulty
     /\ settings' = d.settings
     /\ sequence' = x.sequence
     /\ sequenceLength' = x.sequenceLength
     /\ masterSequenceLength' = x.masterSequenceLength
     /\ currentStep' = 0
     /\ currentScore' = 0
     /\ state' = "SHOWING_SEQUENCE"
     /\ stateTime' = 0
     /\ inputElapsed' = ie
     /\ ev' = e
     /\ UNCHANGED <<gameMode, players, numPlayers, currentPlayerIndex,
                    highScores, storage>>

\* A handler that returns without touching the engine.
noChange(ie, st, e) ==
  /\ inputElapsed' = ie
  /\ stateTime' = st
  /\ ev' = e
  /\ UNCHANGED <<state, currentDifficulty, settings, gameMode, players,
                 numPlayers, currentPlayerIndex, masterSequenceLength,
                 sequence, sequenceLength, currentStep, currentScore,
                 highScores, storage>>

\* handleIdle that polls the buttons and starts nothing.
handleIdle_IgnoresPress(pressed, color, ie, st) ==
  noChange(ie, st, Event("update", pressed, TRUE, 0, FALSE, 0))

handleIdle(pressed, color, ie, st) ==
  IF pressed # NONE
  THEN startGame(currentDifficulty, color, ie,
                 Event("update", pressed, TRUE, 0, FALSE, 0))
  ELSE noChange(ie, st, Event("update", pressed, TRUE, 0, FALSE, 0))

\* What the engine sends to the LEDs and the buzzer, and its blocking waits:
\* led->on(color), audio->playColor(color, ms), led->off(color), delay(ms).
Signal(kind, color, ms) == [kind |-> kind, color |-> color, ms |-> ms]

\* playSequenceStep(index): the signals of one element.
playSequenceStep(index) ==
  IF index >= sequenceLength THEN <<>>
  ELSE <<Signal("on", sequence[index], 0),
         Signal("tone", sequence[index], settings.toneDuration),
         Signal("off", sequence[index], 0)>>

\* The pause test of playSequence that also pauses after the last element.
pauseAfter_Always(i) == TRUE

\* The pause test of playSequence, after element i.
pauseAfter(i) == i < sequenceLength - 1

\* The loop of playSequence from element i on.
RECURSIVE playSequenceFrom(_)
playSequenceFrom(i) ==
  IF i < sequenceLength
  THEN playSequenceStep(i)
         \o (IF pauseAfter(i)
             THEN <<Signal("delay", NONE, settings.sequenceSpeed)>>
             ELSE <<>>)
         \o playSequenceFrom(i + 1)
  ELSE <<>>

\* playSequence(): everything the burst emits, in order.
playSequence ==
  <<Signal("delay", NONE, PLAYBACK_LEAD_MS)>> \o playSequenceFrom(0)

\* The record of a tick that played the sequence back.
Played(output) ==
  [op |-> "update", pressed |-> NONE, polled |-> FALSE, elapsed |-> 0,
   highScore |-> FALSE, recorded |-> 0, arg |-> 0, output |-> output]

\* handleShowingSequence whose playSequence() leaves currentStep as it is.
handleShowingSequence_KeepCursor ==
  /\ inputElapsed' = 0
  /\ state' = "WAITING_INPUT"
  /\ stateTime' = 0
  /\ ev' = Played(playSequence)
  /\ UNCHANGED <<currentDifficulty, settings, gameMode, players, numPlayers,
                 currentPlayerIndex, masterSequenceLength, sequence,
                 sequenceLength, currentStep, currentScore, highScores,
                 storage>>

\* playSequence() then setState(WAITING_INPUT).
handleShowingSequence ==
  /\ currentStep' = 0
  /\ inputElapsed' = 0
  /\ state' = "WAITING_INPUT"
  /\ stateTime' = 0
  /\ ev' = Played(playSequence)
  /\ UNCHANGED <<currentDifficulty, settings, gameMode, players, numPlayers,
                 currentPlayerIndex, masterSequenceLength, sequence,
                 sequenceLength, currentScore, highScores, storage>>

handleWaitingInput(pressed, ie, st) ==
  IF inputTimedOut(ie)
  THEN /\ state' = "INPUT_WRONG"
       /\ stateTime' = 0
       /\ inputElapsed' = ie
       /\ ev' = Event("update", pressed, FALSE, ie, FALSE, 0)
       /\ UNCHANGED <<currentDifficulty, settings, gameMode, players,
                      numPlayers, currentPlayerIndex, masterSequenceLength,
                      sequence, sequenceLength, currentStep, currentScore,
                      highScores, storage>>
  ELSE IF pressed # NONE
  THEN /\ ev' = Event("update", pressed, TRUE, ie, FALSE, 0)
       /\ UNCHANGED <<currentDifficulty, settings, gameMode, players,
                      numPlayers, currentPlayerIndex, masterSequenceLength,
                      sequence, sequenceLength, currentScore, highScores,
                      storage>>
       /\ IF validateInput(pressed)
          THEN /\ currentStep' = U8(currentStep + 1)
               /\ IF U8(currentStep + 1) >= sequenceLength
                  THEN /\ state' = "INPUT_CORRECT"
                       /\ stateTime' = 0
                       /\ inputElapsed' = ie
                  ELSE /\ inputElapsed' = 0
                       /\ stateTime' = st
                       /\ UNCHANGED state
          ELSE /\ state' = "INPUT_WRONG"
               /\ stateTime' = 0
               /\ inputElapsed' = ie
               /\ UNCHANGED currentStep
  ELSE noChange(ie, st, Event("update", NONE, TRUE, ie, FALSE, 0))

\* The win test against the size of the sequence buffer instead of the tier's
\* maxLength.
maxLengthReached_BufferSize == sequenceLength >= MaxSeq

\* The win test one round late.
maxLengthReached_OffByOne == sequenceLength > settings.maxLength

\* The win test of handleInputCorrect.
maxLengthReached == sequenceLength >= settings.maxLength

handleInputCorrect(color, ie, st) ==
  LET score == U8(currentScore + 1)
      scored == IF gameMode = "PASS_AND_PLAY"
                THEN [players EXCEPT ![currentPlayerIndex].score = score]
                ELSE players
  IN /\ currentScore' = score
     /\ players' = scored
     /\ inputElapsed' = ie
     /\ stateTime' = 0
     /\ UNCHANGED <<currentDifficulty, settings, gameMode, numPlayers,
                    currentPlayerIndex, currentStep, storage>>
     /\ IF maxLengthReached
        THEN LET u == IF gameMode = "SINGLE_PLAYER"
                      THEN updateHighScore(score)
                      ELSE [highScores |-> highScores, celebrate |-> FALSE]
             IN /\ highScores' = u.highScores
                /\ state' = "GAME_OVER"
                /\ ev' = Did("update", u.celebrate, 0)
                /\ UNCHANGED <<sequence, sequenceLength, masterSequenceLength>>
        ELSE LET x == extendSequence(sequence, sequenceLength,
                                     masterSequenceLength, gameMode, color)
             IN /\ sequence' = x.sequence
                /\ sequenceLength' = x.sequenceLength
                /\ masterSequenceLength' = x.masterSequenceLength
                /\ state' = "SHOWING_SEQUENCE"
                /\ ev' = Did("update", FALSE, 0)
                /\ UNCHANGED highScores

handleInputWrong(ie, st, stor) ==
  IF gameMode = "SINGLE_PLAYER"
  THEN LET u == updateHighScore(currentScore)
       IN /\ highScores' = u.highScores
          /\ state' = "GAME_OVER"
          /\ stateTime' = 0
          /\ inputElapsed' = ie
          /\ ev' = Did("update", u.celebrate, recordGameSession(stor))
          /\ UNCHANGED <<currentDifficulty, settings, gameMode, players,
                         numPlayers, currentPlayerIndex, masterSequenceLength,
                         sequence, sequenceLength, currentStep, currentScore,
                         storage>>
  ELSE LET finished == [players EXCEPT ![currentPlayerIndex] =
                          [score |-> currentScore, hasPlayed |-> TRUE]]
       IN /\ players' = finished
          /\ stateTime' = 0
          /\ inputElapsed' = ie
          /\ ev' = Did("update", FALSE, recordGameSession(stor))
          /\ UNCHANGED <<currentDifficulty, settings, gameMode, numPlayers,
                         masterSequenceLength, sequence, highScores, storage>>
          /\ IF allPlayersFinished(finished)
             THEN /\ state' = "GAME_OVER"
                  /\ UNCHANGED <<currentPlayerIndex, currentScore, currentStep,
                                 sequenceLength>>
             ELSE /\ currentPlayerIndex' = nextPlayer(finished)
                  /\ currentScore' = 0
                  /\ currentStep' = 0
                  /\ sequenceLength' = 1
                  /\ state' = "SHOWING_SEQUENCE"

\* The hold test that lets a press through at exactly the hold time.
gameOverHoldElapsed_AtHold(st) == st >= GAME_OVER_HOLD_MS

\* The hold test of handleGameOver, on st = getStateTime().
gameOverHoldElapsed(st) == st > GAME_OVER_HOLD_MS

handleGameOver(pressed, color, ie, st) ==
  IF gameOverHoldElapsed(st)
  THEN IF pressed # NONE
       THEN startGame(currentDifficulty, color, ie,
                      Event("update", pressed, TRUE, st, FALSE, 0))
       ELSE noChange(ie, st, Event("update", pressed, TRUE, st, FALSE, 0))
  ELSE noChange(ie, st, Event("update", pressed, FALSE, st, FALSE, 0))

handleHighScore(ie, st) ==
  IF st > HIGH_SCORE_HOLD_MS
  THEN /\ state' = "GAME_OVER"
       /\ stateTime' = 0
       /\ inputElapsed' = ie
       /\ ev' = Did("update", FALSE, 0)
       /\ UNCHANGED <<currentDifficulty, settings, gameMode, players,
                      numPlayers, currentPlayerIndex, masterSequenceLength,
                      sequence, sequenceLength, currentStep, currentScore,
                      highScores, storage>>
  ELSE noChange(ie, st, Did("update", FALSE, 0))

\* lastInputTime is read only by handleWaitingInput, which is entered only
\* through playSequence() (lastInputTime = millis()); stateStartTime is read
\* only by handleGameOver and handleHighScore, entered through setState().
\* In every other state the value of a timer is overwritten before it is
\* read again, so the model leaves it as it is instead of advancing it.
ReadsInputTimer == state = "WAITING_INPUT"
ReadsStateTimer == state \in {"GAME_OVER", "HIGH_SCORE"}

\* The switch of update(): ie is millis() - lastInputTime and st is
\* millis() - stateStartTime at the call.
handleState(pressed, color, ie, st, stor) ==
  CASE state = "IDLE" -> handleIdle(pressed, color, ie, st)
    [] state = "SHOWING_SEQUENCE" -> handleShowingSequence
    [] state = "WAITING_INPUT" -> handleWaitingInput(pressed, ie, st)
    [] state = "INPUT_CORRECT" -> handleInputCorrect(color, ie, st)
    [] state = "INPUT_WRONG" -> handleInputWrong(ie, st, stor)
    [] state = "GAME_OVER" -> handleGameOver(pressed, color, ie, st)
    [] state = "HIGH_SCORE" -> handleHighScore(ie, st)

\* update(): dt is the time since the previous operation, pressed the edge
\* btn->getJustPressed() reports in this cycle, color the next random color,
\* stor the storage the engine was constructed with.
update(pressed, color, dt, stor) ==
  LET ie == IF ReadsInputTimer THEN Sat(inputElapsed + dt) ELSE inputElapsed
      st == IF ReadsStateTimer THEN Sat(stateTime + dt) ELSE stateTime
  IN handleState(pressed, color, ie, st, stor)

\* The handlers of these states call btn->getJustPressed() / extendSequence();
\* in the other states the edge and the random color are never looked at.
Polls == state \in {"IDLE", "WAITING_INPUT", "GAME_OVER"}
Generates == state \in {"IDLE", "INPUT_CORRECT", "GAME_OVER"}

\* One call of update() by an engine constructed with storage stor.
UpdateWith(stor) ==
  \E dt \in (IF ReadsInputTimer \/ ReadsStateTimer THEN TimeSteps
             ELSE {TimeStep}) :
    \E pressed \in (IF Polls THEN PressInputs ELSE {NONE}),
       color \in (IF Generates THEN Color ELSE {RED}) :
      /\ update(pressed, color, dt, stor)
      /\ UNCHANGED <<playback, periphery>>

Update == UpdateWith(storage)

\* startGame called by the control surface.
StartGame ==
  \E difficulty \in DifficultyInputs, color \in Color :
    /\ startGame(difficulty, color, inputElapsed,
                 Did("startGame", FALSE, 0))
    /\ UNCHANGED <<playback, periphery>>

\* reset(): setState(IDLE).
Reset ==
  /\ state' = "IDLE"
  /\ stateTime' = 0
  /\ ev' = Did("reset", FALSE, 0)
  /\ UNCHANGED <<currentDifficulty, settings, gameMode, players, numPlayers,
                 currentPlayerIndex, masterSequenceLength, sequence,
                 sequenceLength, currentStep, currentScore, highScores,
                 inputElapsed, storage, playback, periphery>>

\* The participant-count test without its upper limit.
invalidPlayerCount_NoUpperLimit(n) == n < MIN_PLAYERS

\* The participant-count test of startMultiplayerGame.
invalidPlayerCount(n) == n < MIN_PLAYERS \/ n > MAX_PLAYERS

startMultiplayerGame(mode, numPlayers_, difficulty, color, e) ==
  IF invalidPlayerCount(numPlayers_)
  THEN noChange(inputElapsed, stateTime, e) /\ UNCHANGED <<playback, periphery>>
  ELSE LET d == setDifficulty(difficulty)
           x == extendSequence(EmptySequence, 0, 0, mode, color)
       IN /\ gameMode' = mode
          /\ numPlayers' = numPlayers_
          /\ currentPlayerIndex' = 0
          /\ players' = [i \in PlayerIndex |->
                           IF i < numPlayers_
                           THEN [score |-> 0, hasPlayed |-> FALSE]
                           ELSE players[i]]
          /\ currentDifficulty' = d.currentDifficulty
          /\ settings' = d.settings
          /\ sequence' = x.sequence
          /\ sequenceLength' = x.sequenceLength
          /\ masterSequenceLength' = x.masterSequenceLength
          /\ currentStep' = 0
          /\ currentScore' = 0
          /\ state' = "SHOWING_SEQUENCE"
          /\ stateTime' = 0
          /\ ev' = e
          /\ UNCHANGED <<highScores, inputElapsed, storage, playback, periphery>>

StartMultiplayerGame ==
  \E n \in PlayerCountInputs, difficulty \in DifficultyInputs, color \in Color :
    startMultiplayerGame("PASS_AND_PLAY", n, difficulty, color,
                         Did("startMultiplayerGame", FALSE, 0))

Next == Update \/ StartGame \/ Reset \/ StartMultiplayerGame

Spec == Init /\ [][Next]_vars

\* ------------------------------------------- the two-participant game
\* startMultiplayerGame for two participants on Medium, whose rounds go one
\* element deeper than Easy's; games started from the buttons stay on Easy.
StartTwoPlayerGame ==
  \E color \in Color :
    startMultiplayerGame("PASS_AND_PLAY", MIN_PLAYERS, MEDIUM, color,
                         Did("startMultiplayerGame", FALSE, 0))

NextTwoPlayers == Update \/ StartTwoPlayerGame

SpecTwoPlayers == Init /\ [][NextTwoPlayers]_vars

\* ---------------------------------------------- the participant count
\* startMultiplayerGame on Easy with a participant count just outside either
\* limit or the smallest one allowed, observed together with that count.
CountedPlayerInputs == {MIN_PLAYERS - 1, MIN_PLAYERS, MAX_PLAYERS + 1}

StartCountedMultiplayerGame ==
  \E n \in CountedPlayerInputs, color \in Color :
    startMultiplayerGame("PASS_AND_PLAY", n, 0, color,
                         [Did("startMultiplayerGame", FALSE, 0)
                            EXCEPT !.arg = n])

NextPlayerCount == Update \/ StartCountedMultiplayerGame

SpecPlayerCount == Init /\ [][NextPlayerCount]_vars

\* ------------------------------------------------ setDifficulty calls
\* setDifficulty called on its own, in any state, with Easy, Medium or an
\* index past the table, observed together with that index; the games are
\* started from the buttons, on the tier the engine is then set to.
TierInputs == {0, MEDIUM, NUM_DIFFICULTIES}

SetDifficulty ==
  \E difficulty \in TierInputs :
    LET d == setDifficulty(difficulty)
    IN /\ currentDifficulty' = d.currentDifficulty
       /\ settings' = d.settings
       /\ ev' = [Did("setDifficulty", FALSE, 0) EXCEPT !.arg = difficulty]
       /\ UNCHANGED <<state, gameMode, players, numPlayers,
                      currentPlayerIndex, masterSequenceLength, sequence,
                      sequenceLength, currentStep, currentScore, highScores,
                      stateTime, inputElapsed, storage, playback, periphery>>

NextConfig == Update \/ SetDifficulty

SpecConfig == Init /\ [][NextConfig]_vars

\* ------------------------------------------------ the three storages
\* The engine constructed with each kind of storage, played from the buttons
\* and in two-participant games on Easy.  The names startMultiplayerGame looks
\* up in the storage are not part of the model.
InitStorage ==
  /\ state = "IDLE"
  /\ currentDifficulty = 0
  /\ settings = getDifficultySettings(0)
  /\ gameMode = "SINGLE_PLAYER"
  /\ players = InitialPlayers
  /\ numPlayers = 0
  /\ currentPlayerIndex = 0
  /\ masterSequenceLength = 0
  /\ sequence = EmptySequence
  /\ sequenceLength = 0
  /\ currentStep = 0
  /\ currentScore = 0
  /\ storage \in StorageKinds
  /\ \E best \in 0 .. MaxStoredBest :
       highScores = loadHighScores(storage, best)
  /\ stateTime = 0
  /\ inputElapsed = 0
  /\ playback = FALSE
  /\ InitPeriphery
  /\ ev = Did("begin", FALSE, 0)

StartEasyPairGame ==
  \E color \in Color :
    startMultiplayerGame("PASS_AND_PLAY", MIN_PLAYERS, 0, color,
                         Did("startMultiplayerGame", FALSE, 0))

\* One operation of an engine constructed with storage stor.
NextStorageWith(stor) == UpdateWith(stor) \/ StartEasyPairGame

NextStorage == NextStorageWith(storage)

SpecStorage == InitStorage /\ [][NextStorage]_vars

\* ------------------------------------------- commands during playback
\* The request handlers of the AsyncWebServer (handleStartGame,
\* handleStopGame) call startGame() and reset() from the server's task, with
\* no lock and no queue, while loop() may be inside update().  The tick of
\* SHOWING_SEQUENCE is therefore taken in two steps, with the blocking
\* delays of playSequence() between them; the other ticks are short and are
\* taken in one step.
BeginPlayback ==
  /\ ~playback
  /\ state = "SHOWING_SEQUENCE"
  /\ playback' = TRUE
  /\ UNCHANGED <<state, currentDifficulty, settings, gameMode, players,
                 numPlayers, currentPlayerIndex, masterSequenceLength,
                 sequence, sequenceLength, currentStep, currentScore,
                 highScores, stateTime, inputElapsed, storage, ev,
                 periphery>>

\* The end of the burst: currentStep = 0, lastInputTime = millis(), then
\* setState(WAITING_INPUT), whatever the state has become.
EndPlayback ==
  /\ playback
  /\ playback' = FALSE
  /\ handleShowingSequence
  /\ UNCHANGED periphery

\* A tick of another state that does not wait for the burst to end.
ShortTick_InsideBurst ==
  /\ state # "SHOWING_SEQUENCE"
  /\ Update

\* A tick of any other state.
ShortTick ==
  /\ ~playback
  /\ state # "SHOWING_SEQUENCE"
  /\ Update

NextAsync ==
  BeginPlayback \/ EndPlayback \/ ShortTick \/ Reset \/ StartGame

SpecAsync == Init /\ [][NextAsync]_vars

\* ------------------------------------------------------ the main loop
\* loop() of main.cpp calls game->update() on every pass and never returns,
\* and each pass takes time: update() is weakly fair.  The games are those of
\* NextStorage, on a working storage.
SpecTicking == Init /\ [][NextStorage]_vars /\ WF_vars(Update)

\* ---------------------------------------------------- the table lookup
\* getDifficultySettings called on its own with every value a DifficultyLevel
\* can hold, observed together with the level, the settings returned (with
\* the length cut) and the table row they come from (with the length of
\* config.h).
GetDifficultySettings ==
  \E level \in DifficultyLevelValues :
    /\ ev' = [op |-> "getDifficultySettings", pressed |-> NONE,
              polled |-> FALSE, elapsed |-> 0, highScore |-> FALSE,
              recorded |-> 0, arg |-> level,
              result |-> getDifficultySettings(level),
              preset |-> lookup(presets, level)]
    /\ UNCHANGED <<state, currentDifficulty, settings, gameMode, players,
                   numPlayers, currentPlayerIndex, masterSequenceLength,
                   sequence, sequenceLength, currentStep, currentScore,
                   highScores, stateTime, inputElapsed, storage, playback, periphery>>

NextLookup == GetDifficultySettings

SpecLookup == Init /\ [][NextLookup]_vars

\* ------------------------------------------------------ the button handler
\* ButtonHandler on its own: the pins change level at any instant, time
\* passes in steps of half the debounce time, and update() is called as
\* SimonGame::update() calls it, followed by the handler's poll.
ElapseSteps == {BUTTON_DEBOUNCE_MS \div 2, BUTTON_DEBOUNCE_MS}
SatDebounce(t) == IF t > BUTTON_DEBOUNCE_MS THEN BUTTON_DEBOUNCE_MS ELSE t

\* updateButtonState that does not refresh previous when the state stays.
updateButtonState_KeepPrevious(s, raw) ==
  IF raw # s.current
  THEN IF s.sinceChange >= BUTTON_DEBOUNCE_MS
       THEN [current |-> raw, previous |-> s.current, raw |-> raw,
             sinceChange |-> 0]
       ELSE [s EXCEPT !.raw = raw]
  ELSE [s EXCEPT !.raw = raw, !.sinceChange = 0]

\* updateButtonState on ButtonState s when readRawButton() returns raw.
updateButtonState(s, raw) ==
  IF raw # s.current
  THEN IF s.sinceChange >= BUTTON_DEBOUNCE_MS
       THEN [current |-> raw, previous |-> s.current, raw |-> raw,
             sinceChange |-> 0]
       ELSE [s EXCEPT !.previous = s.current, !.raw = raw]
  ELSE [current |-> s.current, previous |-> s.current, raw |-> raw,
        sinceChange |-> 0]

wasPressed(bs, color) ==
  IF color \notin Color THEN FALSE
  ELSE bs[color].current /\ ~bs[color].previous

\* getJustPressed: the first color, in index order, whose wasPressed is true.
getJustPressed(bs) ==
  IF \E c \in Color : wasPressed(bs, c)
  THEN CHOOSE c \in Color :
         wasPressed(bs, c) /\ \A d \in Color : wasPressed(bs, d) => c <= d
  ELSE NONE

\* A button is pressed or released, or its contact bounces.
PinChange ==
  \E c \in Color :
    /\ pins' = [pins EXCEPT ![c] = [pressed |-> ~pins[c].pressed,
                                    differsFor |-> 0]]
    /\ ev' = [Did("pin", FALSE, 0) EXCEPT !.arg = c]
    /\ UNCHANGED <<state, currentDifficulty, settings, gameMode, players,
                   numPlayers, currentPlayerIndex, masterSequenceLength,
                   sequence, sequenceLength, currentStep, currentScore,
                   highScores, stateTime, inputElapsed, storage, playback,
                   buttonStates, powerManager, clock>>

\* Time passes between two calls of update(): delay(10) of loop(), or a
\* blocking burst.
Elapse ==
  \E d \in ElapseSteps :
    /\ buttonStates' =
         [c \in Color |->
            [buttonStates[c] EXCEPT !.sinceChange = SatDebounce(@ + d)]]
    /\ pins' =
         [c \in Color |->
            [pins[c] EXCEPT !.differsFor =
               IF pins[c].pressed # buttonStates[c].current
               THEN SatDebounce(@ + d) ELSE 0]]
    /\ ev' = [Did("delay", FALSE, 0) EXCEPT !.arg = d]
    /\ UNCHANGED <<state, currentDifficulty, settings, gameMode, players,
                   numPlayers, currentPlayerIndex, masterSequenceLength,
                   sequence, sequenceLength, currentStep, currentScore,
                   highScores, stateTime, inputElapsed, storage, playback,
                   powerManager, clock>>

\* btn->update() at the head of SimonGame::update(), and the edge
\* btn->getJustPressed() then returns to the handler.
ButtonUpdate ==
  LET updated == [c \in Color |->
                    updateButtonState(buttonStates[c], pins[c].pressed)]
  IN /\ buttonStates' = updated
     /\ pins' = [c \in Color |->
                   IF updated[c].current = pins[c].pressed
                   THEN [pins[c] EXCEPT !.differsFor = 0] ELSE pins[c]]
     /\ ev' = Event("update", getJustPressed(updated), TRUE, 0, FALSE, 0)
     /\ UNCHANGED <<state, currentDifficulty, settings, gameMode, players,
                    numPlayers, currentPlayerIndex, masterSequenceLength,
                    sequence, sequenceLength, currentStep, currentScore,
                    highScores, stateTime, inputElapsed, storage, playback,
                    powerManager, clock>>

NextButtons == PinChange \/ Elapse \/ ButtonUpdate

SpecButtons == Init /\ [][NextButtons]_vars

\* ------------------------------------------------ the main loop and sleep
\* loop() of main.cpp with the PowerManager: every pass calls game->update()
\* and then either resetActivityTimer() (game active) or checkSleepTimeout(),
\* which calls enterDeepSleep() once 120000 ms have passed since the last
\* reset; enterDeepSleep() waits 100 ms before esp_deep_sleep_start().  The
\* request handler of the web server (handleStartGame) calls startGame() from
\* the server's task at any time the chip is awake.
isActive(s) == s # "IDLE" /\ s # "GAME_OVER"

SatSleep(t) == IF t > DEEP_SLEEP_TIMEOUT_MS THEN DEEP_SLEEP_TIMEOUT_MS ELSE t

\* checkSleepTimeout on t = millis() - lastActivityTime: whether
\* enterDeepSleep() is called.
checkSleepTimeout(t) == t >= DEEP_SLEEP_TIMEOUT_MS

\* One pass of loop() up to its delay(10); dt is the time since the previous
\* pass.
LoopPass ==
  /\ ~powerManager.entering
  /\ ~powerManager.asleep
  /\ \E dt \in (IF ReadsInputTimer \/ ReadsStateTimer THEN TimeSteps
                ELSE {TimeStep}) :
       \E pressed \in (IF Polls THEN PressInputs ELSE {NONE}),
          color \in (IF Generates THEN Color ELSE {RED}) :
         /\ update(pressed, color, dt, storage)
         /\ powerManager' =
              IF isActive(state')
              THEN [powerManager EXCEPT !.timeSinceActivity = 0]
              ELSE LET t == SatSleep(powerManager.timeSinceActivity + dt)
                   IN [powerManager EXCEPT
                         !.timeSinceActivity = t,
                         !.entering = checkSleepTimeout(t)]
  /\ UNCHANGED <<playback, buttonStates, pins, clock>>

\* esp_deep_sleep_start() at the end of enterDeepSleep().
EnterDeepSleep ==
  /\ powerManager.entering
  /\ powerManager' = [powerManager EXCEPT !.entering = FALSE, !.asleep = TRUE]
  /\ ev' = Did("esp_deep_sleep_start", FALSE, 0)
  /\ UNCHANGED <<state, currentDifficulty, settings, gameMode, players,
                 numPlayers, currentPlayerIndex, masterSequenceLength,
                 sequence, sequenceLength, currentStep, currentScore,
                 highScores, stateTime, inputElapsed, storage, playback,
                 buttonStates, pins, clock>>

\* POST /api/game/start while the chip is awake.
RequestStartGame ==
  /\ ~powerManager.asleep
  /\ StartGame

NextLoop == LoopPass \/ EnterDeepSleep \/ RequestStartGame

SpecLoop == Init /\ [][NextLoop]_vars

\* ------------------------------------------------- the clock wrapping
\* The engine with its timers computed as the code computes them, from
\* millis() and the two time stamps in 32-bit unsigned arithmetic, begun up
\* to WrapLead time steps before millis() wraps to 0 and run until as long
\* after it.
WrapStarts == {<<HALF - 1, HALF - k * TimeStep>> : k \in 1 .. WrapLead}

\* The reading of a 32-bit difference as the timers of the model keep it.
Sat32(d) == IF d[1] > 0 THEN TimeCap ELSE Sat(d[2])

InitWrap ==
  /\ state = "IDLE"
  /\ currentDifficulty = 0
  /\ settings = getDifficultySettings(0)
  /\ gameMode = "SINGLE_PLAYER"
  /\ players = InitialPlayers
  /\ numPlayers = 0
  /\ currentPlayerIndex = 0
  /\ masterSequenceLength = 0
  /\ sequence = EmptySequence
  /\ sequenceLength = 0
  /\ currentStep = 0
  /\ currentScore = 0
  /\ storage = "working"
  /\ \E best \in 0 .. MaxStoredBest :
       highScores = loadHighScores("working", best)
  /\ stateTime = 0
  /\ inputElapsed = TimeCap
  /\ playback = FALSE
  /\ buttonStates = [c \in Color |-> InitialButtonState]
  /\ pins = [c \in Color |-> InitialPin]
  /\ powerManager = InitialPowerManager
  /\ \E start \in WrapStarts :
       clock = [millis |-> start, lastInputTime |-> U32(0),
                stateStartTime |-> start, sinceInput |-> TimeCap,
                sinceState |-> 0, tested |-> 0]
  /\ ev = Did("begin", FALSE, 0)

\* millis() has not yet run WrapLead time steps past 0.
BeforeHorizon ==
  \/ clock.millis[1] = HALF - 1
  \/ clock.millis[1] = 0 /\ clock.millis[2] < WrapLead * TimeStep

\* One call of update() at millis() = now.
UpdateWrap ==
  /\ BeforeHorizon
  /\ \E dt \in (IF ReadsInputTimer \/ ReadsStateTimer THEN TimeSteps
                ELSE {TimeStep}) :
       \E pressed \in (IF Polls THEN PressInputs ELSE {NONE}),
          color \in (IF Generates THEN Color ELSE {RED}) :
         LET now == add32(clock.millis, dt)
             ie == Sat32(sub32(now, clock.lastInputTime))
             st == Sat32(sub32(now, clock.stateStartTime))
             stamped == \/ state = "SHOWING_SEQUENCE"
                        \/ /\ state = "WAITING_INPUT"
                           /\ state' = "WAITING_INPUT"
                           /\ currentStep' # currentStep
         IN /\ handleState(pressed, color, ie, st, storage)
            /\ clock' =
                 [millis |-> now,
                  lastInputTime |->
                    IF stamped THEN now ELSE clock.lastInputTime,
                  stateStartTime |->
                    IF state' # state THEN now ELSE clock.stateStartTime,
                  sinceInput |->
                    IF stamped THEN 0 ELSE Sat(clock.sinceInput + dt),
                  sinceState |->
                    IF state' # state THEN 0 ELSE Sat(clock.sinceState + dt),
                  tested |->
                    IF state = "WAITING_INPUT"
                    THEN Sat(clock.sinceInput + dt)
                    ELSE Sat(clock.sinceState + dt)]
  /\ UNCHANGED <<playback, buttonStates, pins, powerManager>>

NextWrap == UpdateWrap

SpecWrap == InitWrap /\ [][NextWrap]_vars

\* ================================================================== claims
\* A step of update(), and the press it was given.
IsUpdate == ev'.op = "update"
CorrectPress ==
  /\ ev'.pressed # NONE
  /\ currentStep < sequenceLength
  /\ ev'.pressed = sequence[currentStep]

\* C1: in WAITING_INPUT a correct press that update() meets less than
\* settings.timingWindow after lastInputTime is accepted: the cursor advances
\* and the round is not failed, at every position of the sequence.
C1_PressInsideWindowAccepted ==
  [][(state = "WAITING_INPUT" /\ IsUpdate /\ CorrectPress
        /\ ev'.elapsed < settings.timingWindow)
     => (/\ ev'.polled
         /\ currentStep' = currentStep + 1
         /\ state' \in {"WAITING_INPUT", "INPUT_CORRECT"})]_vars

\* C1 witness: the second element of a round accepted two time steps after the
\* first one was.
C1_Witness ==
  /\ state = "INPUT_CORRECT"
  /\ ev.op = "update" /\ ev.polled /\ ev.pressed # NONE
  /\ ev.elapsed = 2 * TimeStep
  /\ ev.elapsed < settings.timingWindow
  /\ currentStep = 2

\* C2 as stated: a tick in WAITING_INPUT at a gap >= settings.timingWindow
\* since the last accepted press fails the round on that tick.
C2_GapAtWindowFails ==
  [][(state = "WAITING_INPUT" /\ IsUpdate
        /\ ev'.elapsed >= settings.timingWindow)
     => state' = "INPUT_WRONG"]_vars

\* C2 amended: a tick in WAITING_INPUT at a gap strictly greater than
\* settings.timingWindow fails the round on that tick, without polling the
\* buttons and whatever was repeated correctly before.
C2_GapOverWindowFails ==
  [][(state = "WAITING_INPUT" /\ IsUpdate
        /\ ev'.elapsed > settings.timingWindow)
     => (/\ state' = "INPUT_WRONG"
         /\ ~ev'.polled
         /\ currentStep' = currentStep)]_vars

\* C2 witness: a round timed out after its first element was repeated.
C2_Witness ==
  /\ state = "INPUT_WRONG"
  /\ ev.op = "update" /\ ~ev.polled
  /\ ev.elapsed > settings.timingWindow
  /\ currentStep = 1

\* C3: the score is sequenceLength - 1 while a round is shown or repeated; it
\* changes only by +1 in the tick that closes a correctly repeated round (and
\* then equals the length of that round) or by going back to 0 where a new
\* turn starts; every such tick increments it.
C3_ScoreLaw ==
  [][/\ (state' \in {"SHOWING_SEQUENCE", "WAITING_INPUT"}
           => currentScore' = sequenceLength' - 1)
     /\ ((IsUpdate /\ state = "INPUT_CORRECT")
           => (currentScore' = currentScore + 1
               /\ currentScore' = sequenceLength))
     /\ (currentScore' # currentScore
           => \/ (IsUpdate /\ state = "INPUT_CORRECT"
                    /\ currentScore' = currentScore + 1)
              \/ (currentScore' = 0 /\ state' = "SHOWING_SEQUENCE"
                    /\ sequenceLength' = 1))]_vars

\* C3 witness: the second participant's second round, after one point.
C3_Witness ==
  /\ gameMode = "PASS_AND_PLAY"
  /\ currentPlayerIndex = 1
  /\ state = "WAITING_INPUT"
  /\ currentScore = 1
  /\ sequenceLength = 2

\* C4: a press polled in WAITING_INPUT is compared with sequence[currentStep]:
\* a mismatch fails the round in that tick, cursor and score unchanged; a match
\* advances the cursor by one and completes the round exactly when the cursor
\* reaches sequenceLength.
C4_PolledPressCompared ==
  [][(state = "WAITING_INPUT" /\ IsUpdate /\ ev'.polled /\ ev'.pressed # NONE)
     => IF ev'.pressed = sequence[currentStep]
        THEN /\ currentStep' = currentStep + 1
             /\ currentScore' = currentScore
             /\ state' \in {"WAITING_INPUT", "INPUT_CORRECT"}
             /\ (state' = "INPUT_CORRECT" <=> currentStep' = sequenceLength)
        ELSE /\ state' = "INPUT_WRONG"
             /\ currentStep' = currentStep
             /\ currentScore' = currentScore]_vars

\* C4 witness: a wrong press on the second element of a round, whose first
\* element differs from it.
C4_Witness ==
  /\ state = "INPUT_WRONG"
  /\ ev.op = "update" /\ ev.polled /\ ev.pressed # NONE
  /\ currentStep = 1
  /\ sequenceLength = 2
  /\ ev.pressed = sequence[0]
  /\ ev.pressed # sequence[1]

\* C5: in a single-player game the tick that closes the round of length
\* settings.maxLength goes from INPUT_CORRECT straight to GAME_OVER with
\* score maxLength.
C5_WinAtMaxLength ==
  [][(IsUpdate /\ state = "INPUT_CORRECT" /\ gameMode = "SINGLE_PLAYER"
        /\ sequenceLength = settings.maxLength)
     => (state' = "GAME_OVER" /\ currentScore' = settings.maxLength)]_vars

\* C5 witness: a win that is no new high score.
C5_Witness ==
  /\ state = "GAME_OVER"
  /\ gameMode = "SINGLE_PLAYER"
  /\ ev.op = "update" /\ ~ev.highScore /\ ev.recorded = 0
  /\ currentScore = settings.maxLength
  /\ currentStep = sequenceLength

\* The tick that ends a single-player game.
EndsSingleGame ==
  /\ IsUpdate
  /\ gameMode = "SINGLE_PLAYER"
  /\ state \in {"INPUT_WRONG", "INPUT_CORRECT"}
  /\ state' = "GAME_OVER"

\* C6: at the end of a single-player game setState(HIGH_SCORE) runs and the
\* stored best of the tier is replaced exactly when the final score is
\* strictly greater than it; on a tie nothing changes.
C6_StrictImprovementOnly ==
  [][EndsSingleGame
     => IF currentScore' > highScores[currentDifficulty]
        THEN /\ ev'.highScore
             /\ highScores' =
                  [highScores EXCEPT ![currentDifficulty] = currentScore']
        ELSE /\ ~ev'.highScore
             /\ highScores' = highScores]_vars

\* C6 witness: a game lost with a score equal to the stored best.
C6_Witness ==
  /\ state = "GAME_OVER"
  /\ gameMode = "SINGLE_PLAYER"
  /\ ev.op = "update" /\ ~ev.highScore /\ ev.recorded = 1
  /\ currentScore = 1
  /\ highScores[currentDifficulty] = 1

\* C7 as stated: after the tick in which a game's score beat the stored best
\* the engine is in HIGH_SCORE.
C7_HighScoreStateObserved ==
  (ev.op = "update" /\ ev.highScore) => state = "HIGH_SCORE"

\* C8: while gameMode is PASS_AND_PLAY, a tick that starts no game leaves
\* every sequence[i] with i < masterSequenceLength as it is and never shortens
\* the master sequence.
C8_MasterPrefixKept ==
  [][(gameMode = "PASS_AND_PLAY" /\ IsUpdate
        /\ state \notin {"IDLE", "GAME_OVER"})
     => (/\ masterSequenceLength' >= masterSequenceLength
         /\ \A i \in SeqIndex :
              i < masterSequenceLength => sequence'[i] = sequence[i])]_vars

\* C8 witness: the second participant is shown the two-element prefix the
\* first one played.
C8_Witness ==
  /\ gameMode = "PASS_AND_PLAY"
  /\ currentPlayerIndex = 1
  /\ players[0].hasPlayed /\ players[0].score >= 1
  /\ state = "SHOWING_SEQUENCE"
  /\ ev.op = "update"
  /\ sequenceLength = 2
  /\ masterSequenceLength = 2
  /\ sequence[0] # sequence[1]

\* C9 as stated: in PASS_AND_PLAY the engine is in GAME_OVER only when every
\* participant has played.
C9_GameOverOnlyWhenAllPlayed ==
  (gameMode = "PASS_AND_PLAY" /\ state = "GAME_OVER")
    => allPlayersFinished(players)

\* The participants other than the current one who have not played.
Unplayed ==
  {i \in PlayerIndex :
     i < numPlayers /\ i # currentPlayerIndex /\ ~players[i].hasPlayed}

\* The first of them in round-robin order after the current one.
FirstUnplayedAfterCurrent ==
  LET dist(i) == (i + numPlayers - currentPlayerIndex) % numPlayers
  IN CHOOSE i \in Unplayed : \A j \in Unplayed : dist(i) <= dist(j)

\* C10: when a participant fails and another one has not played, the tick
\* makes the next unplayed participant in round-robin order current, marks
\* the failed one, sets score and cursor to 0 and sequenceLength to 1, keeps
\* the stored sequence, and enters SHOWING_SEQUENCE.
C10_TurnRotation ==
  [][(IsUpdate /\ state = "INPUT_WRONG" /\ gameMode = "PASS_AND_PLAY"
        /\ Unplayed # {})
     => (/\ currentPlayerIndex' = FirstUnplayedAfterCurrent
         /\ players'[currentPlayerIndex].hasPlayed
         /\ players'[currentPlayerIndex].score = currentScore
         /\ ~players'[currentPlayerIndex'].hasPlayed
         /\ currentScore' = 0
         /\ currentStep' = 0
         /\ sequenceLength' = 1
         /\ sequence' = sequence
         /\ masterSequenceLength' = masterSequenceLength
         /\ state' = "SHOWING_SEQUENCE")]_vars

\* C10 witness: the turn passed from the second participant, who reached the
\* second round, to the third.
C10_Witness ==
  /\ gameMode = "PASS_AND_PLAY"
  /\ ev.op = "update" /\ ev.recorded = 1
  /\ state = "SHOWING_SEQUENCE"
  /\ currentPlayerIndex = 2
  /\ players[0].hasPlayed /\ players[1].hasPlayed /\ ~players[2].hasPlayed
  /\ players[1].score = 1
  /\ sequenceLength = 1
  /\ masterSequenceLength = 2
  /\ sequence[0] \in Color

\* The tick in which the second of two participants fails the round showing
\* two elements, after the first one failed the round showing three.
SecondFailsAtDepthTwo ==
  /\ IsUpdate
  /\ state = "INPUT_WRONG"
  /\ gameMode = "PASS_AND_PLAY"
  /\ numPlayers = 2
  /\ currentPlayerIndex = 1
  /\ players[0].hasPlayed
  /\ masterSequenceLength = 3
  /\ sequenceLength = 2

\* C11 as stated: in that tick the second participant's record becomes
\* score 2, hasPlayed, and the engine enters GAME_OVER.
C11_SecondTurnScoresTwo ==
  [][SecondFailsAtDepthTwo
     => (/\ players'[1] = [score |-> 2, hasPlayed |-> TRUE]
         /\ state' = "GAME_OVER")]_vars

\* C11 amended: in that tick the second participant's record becomes score 1
\* (the rounds completed), hasPlayed; the first participant's record (score 2)
\* and the shared sequence stay as they are; the engine enters GAME_OVER with
\* no further turn.
C11_SecondTurnScoresOne ==
  [][SecondFailsAtDepthTwo
     => (/\ players'[1] = [score |-> 1, hasPlayed |-> TRUE]
         /\ players'[0] = [score |-> 2, hasPlayed |-> TRUE]
         /\ players'[0] = players[0]
         /\ sequence' = sequence
         /\ masterSequenceLength' = 3
         /\ currentPlayerIndex' = 1
         /\ state' = "GAME_OVER")]_vars

\* C11 witness: the end of that game.
C11_Witness ==
  /\ state = "GAME_OVER"
  /\ gameMode = "PASS_AND_PLAY"
  /\ numPlayers = 2
  /\ ev.op = "update" /\ ev.recorded = 1
  /\ players[0] = [score |-> 2, hasPlayed |-> TRUE]
  /\ players[1] = [score |-> 1, hasPlayed |-> TRUE]
  /\ masterSequenceLength = 3
  /\ sequenceLength = 2
  /\ sequence[0] # sequence[1]

\* C12: after every operation sequenceLength is at most the maxLength of the
\* active difficulty, which is the one the engine's settings are those of.
C12_LengthWithinMax ==
  /\ settings = getDifficultySettings(currentDifficulty)
  /\ sequenceLength <= settings.maxLength

\* C12 witness: a pass-and-play participant has repeated the round of length
\* maxLength.
C12_Witness ==
  /\ gameMode = "PASS_AND_PLAY"
  /\ state = "GAME_OVER"
  /\ ev.op = "update"
  /\ sequenceLength = settings.maxLength
  /\ currentStep = sequenceLength
  /\ currentScore = sequenceLength

\* C13: in every reachable state currentStep <= sequenceLength (currentStep
\* is unsigned, so 0 <= currentStep), and the tick that plays the sequence
\* back leaves the cursor at 0, in WAITING_INPUT.
C13_CursorWithinSequence ==
  /\ [](currentStep \in Nat /\ currentStep <= sequenceLength)
  /\ [][(IsUpdate /\ state = "SHOWING_SEQUENCE")
         => (currentStep' = 0 /\ state' = "WAITING_INPUT")]_vars

\* C13 witness: the second participant's second round has just been played
\* back, after the first participant left the cursor at 1.
C13_Witness ==
  /\ gameMode = "PASS_AND_PLAY"
  /\ currentPlayerIndex = 1
  /\ state = "WAITING_INPUT"
  /\ ev.op = "update" /\ ~ev.polled
  /\ sequenceLength = 2
  /\ currentStep = 0

\* C14: whenever gameMode is PASS_AND_PLAY, after every operation
\* masterSequenceLength >= sequenceLength.
C14_MasterCoversSequence ==
  gameMode = "PASS_AND_PLAY" => masterSequenceLength >= sequenceLength

\* C14 witness: the third participant waits on the first round while the
\* master sequence is two elements long.
C14_Witness ==
  /\ gameMode = "PASS_AND_PLAY"
  /\ currentPlayerIndex = 2
  /\ state = "WAITING_INPUT"
  /\ sequenceLength = 1
  /\ masterSequenceLength = 2

\* The last operation began a game through startGame: the call itself, or a
\* press polled by handleIdle / handleGameOver (the only polled presses that
\* lead to SHOWING_SEQUENCE).
BegunByStartGame ==
  \/ ev.op = "startGame"
  \/ /\ ev.op = "update" /\ ev.polled /\ ev.pressed # NONE
     /\ state = "SHOWING_SEQUENCE"

\* C15 as stated: a game begun by startGame or by a press in IDLE / GAME_OVER
\* is a single-player game, whatever was played before.
C15_StartGameIsSinglePlayer ==
  BegunByStartGame => gameMode = "SINGLE_PLAYER"

\* C16: startMultiplayerGame called with fewer than 2 or more than 4
\* participants changes no field of the engine and starts no game.
C16_InvalidCountNoMutation ==
  [][(ev'.op = "startMultiplayerGame"
        /\ (ev'.arg < 2 \/ ev'.arg > 4))
     => UNCHANGED <<state, currentDifficulty, settings, gameMode, players,
                    numPlayers, currentPlayerIndex, masterSequenceLength,
                    sequence, sequenceLength, currentStep, currentScore,
                    highScores, stateTime, inputElapsed, storage>>]_vars

\* C16 witness: a call with five participants during a single-player game
\* left the game waiting for input with one point.
C16_Witness ==
  /\ ev.op = "startMultiplayerGame"
  /\ ev.arg = 5
  /\ gameMode = "SINGLE_PLAYER"
  /\ state = "WAITING_INPUT"
  /\ currentScore = 1
  /\ numPlayers = 0

\* C17 as stated: after setDifficulty with an index outside 0..3 the active
\* difficulty and its settings are those of the default tier.
C17_InvalidTierClamped ==
  (ev.op = "setDifficulty" /\ ev.arg >= NUM_DIFFICULTIES)
    => (/\ currentDifficulty = DEFAULT_DIFFICULTY
        /\ settings = difficulties[DEFAULT_DIFFICULTY])

\* C18 as stated: setDifficulty called while a game is active leaves the
\* running game's tier and settings as they were.
C18_MidGameChangeIgnored ==
  [][(ev'.op = "setDifficulty" /\ state \notin {"IDLE", "GAME_OVER"})
     => (currentDifficulty' = currentDifficulty /\ settings' = settings)]_vars

\* C19 as stated: after reset() the engine is in IDLE and what the getters
\* show of the stopped game is gone: getScore() reads 0, the mode is back to
\* single-player and the turn records are empty.
C19_ResetDiscardsGame ==
  ev.op = "reset"
    => (/\ state = "IDLE"
        /\ currentScore = 0
        /\ gameMode = "SINGLE_PLAYER"
        /\ players = InitialPlayers)

\* The tick that ends a turn: a single-player game ends, by failure or at the
\* maximum length, or a pass-and-play participant's turn does.
TurnEnds ==
  /\ IsUpdate
  /\ \/ state = "INPUT_WRONG"
     \/ state = "INPUT_CORRECT" /\ state' = "GAME_OVER"

\* C20 as stated: one session is handed to the storage in every tick that
\* ends a turn, and none in any other step.
C20_OneSessionPerTurn ==
  [][ev'.recorded = (IF TurnEnds THEN 1 ELSE 0)]_vars

\* The score of the session a turn-ending tick closes: the failed turn's
\* score, or the score the winning round has just raised.
SessionScore == IF state = "INPUT_WRONG" THEN currentScore ELSE currentScore'

\* C21 as stated: after every finished session, in single-player and in
\* pass-and-play alike, highScores of the tier is at least that session's
\* score, and a session that beat the stored best was handed to the storage.
C21_HighScoreCoversSession ==
  [][TurnEnds
     => (/\ highScores'[currentDifficulty] >= SessionScore
         /\ (SessionScore > highScores[currentDifficulty]
               => ev'.recorded = 1))]_vars

\* Every field of the engine but the storage pointer, and what the last
\* operation was given and did apart from the sessions handed to the storage.
EngineFields ==
  <<state, currentDifficulty, settings, gameMode, players, numPlayers,
    currentPlayerIndex, masterSequenceLength, sequence, sequenceLength,
    currentStep, currentScore, highScores, stateTime, inputElapsed>>
Operation == [ev EXCEPT !.recorded = 0]

\* The kind of storage a step is compared with: none with failing, failing
\* with working, working with none.
ComparedStorage ==
  CASE storage = "none" -> "failing"
    [] storage = "failing" -> "working"
    [] OTHER -> "none"

\* C22: without storage every high score starts at 0 and no session is handed
\* over; and every step the engine takes with its storage, it also takes, on
\* the same inputs and to the same values of all its fields (state, scores,
\* cursor, sequence and lengths among them), with the next kind of storage
\* (none, failing, working, none), so that the trajectories of the three
\* engines started with the same high scores coincide step by step.
C22_PersistenceIndependence ==
  /\ []((ev.op = "begin" /\ storage = "none")
          => \A t \in 0 .. (NUM_DIFFICULTIES - 1) : highScores[t] = 0)
  /\ [][storage = "none" => ev'.recorded = 0]_vars
  /\ [][\A fields \in {EngineFields'}, operation \in {Operation'} :
          ENABLED (/\ NextStorageWith(ComparedStorage)
                   /\ EngineFields' = fields
                   /\ Operation' = operation)]_vars

\* C22 witness: an engine without storage has finished a game with one point
\* (its best is now 1, and nothing was recorded) and a press in GAME_OVER has
\* started the next game.
C22_Witness ==
  /\ storage = "none"
  /\ gameMode = "SINGLE_PLAYER"
  /\ highScores[currentDifficulty] = 1
  /\ state = "SHOWING_SEQUENCE"
  /\ ev.op = "update" /\ ev.polled /\ ev.pressed # NONE
  /\ currentScore = 0
  /\ sequenceLength = 1

\* C23: a tick in GAME_OVER starts a new game exactly when it polls a press
\* and getStateTime() is more than the hold (2000 ms); a tick at or before the
\* hold does not poll, and a tick that starts no game leaves the engine in
\* GAME_OVER with every field as it was, so that nothing of an earlier press
\* is kept.
C23_GameOverHold ==
  [][(state = "GAME_OVER" /\ IsUpdate)
     => (/\ ev'.elapsed \in {Sat(stateTime + dt) : dt \in TimeSteps}
         /\ IF ev'.elapsed > 2000 /\ ev'.pressed # NONE
            THEN /\ ev'.polled
                 /\ state' = "SHOWING_SEQUENCE"
                 /\ currentScore' = 0
                 /\ currentStep' = 0
                 /\ sequenceLength' = 1
            ELSE /\ state' = "GAME_OVER"
                 /\ stateTime' = ev'.elapsed
                 /\ (ev'.elapsed <= 2000 => ~ev'.polled)
                 /\ UNCHANGED <<currentDifficulty, settings, gameMode,
                                players, numPlayers, currentPlayerIndex,
                                masterSequenceLength, sequence,
                                sequenceLength, currentStep, currentScore,
                                highScores, inputElapsed, storage>>)]_vars

\* C23 witness: a press exactly 2000 ms after GAME_OVER was entered, which
\* the tick did not poll.
C23_Witness ==
  /\ state = "GAME_OVER"
  /\ ev.op = "update"
  /\ ev.pressed # NONE
  /\ ~ev.polled
  /\ ev.elapsed = 2000
  /\ stateTime = 2000

\* C24: while update() keeps being called, every state in which a game is
\* running (shown, awaited, round complete, round failed, high score) is
\* followed by GAME_OVER or IDLE, whatever is pressed or not pressed, unless
\* the control surface starts another game first.
C24_EventuallyAtRest ==
  (state \in {"SHOWING_SEQUENCE", "WAITING_INPUT", "INPUT_CORRECT",
              "INPUT_WRONG", "HIGH_SCORE"})
    ~> (state \in {"GAME_OVER", "IDLE"} \/ ev.op # "update")

\* C24 witness: a two-participant game in which nobody ever repeated a round
\* has ended.
C24_Witness ==
  /\ state = "GAME_OVER"
  /\ gameMode = "PASS_AND_PLAY"
  /\ ev.op = "update"
  /\ numPlayers = 2
  /\ players[0] = [score |-> 0, hasPlayed |-> TRUE]
  /\ players[1] = [score |-> 0, hasPlayed |-> TRUE]
  /\ masterSequenceLength = 1

\* C25: after begin() the engine is in IDLE; a tick in IDLE polls the buttons,
\* leaves state, score, cursor and sequence as they are when there is no
\* edge, and on an edge starts a game in that same tick (SHOWING_SEQUENCE,
\* sequenceLength 1, score 0, cursor 0); IDLE is left only by such a tick or
\* by a call of startGame / startMultiplayerGame.
C25_IdleLeftByPressOrStart ==
  /\ [](ev.op = "begin" => state = "IDLE")
  /\ [][(state = "IDLE" /\ IsUpdate)
        => (/\ ev'.polled
            /\ IF ev'.pressed = NONE
               THEN UNCHANGED <<state, currentScore, currentStep, sequence,
                                sequenceLength>>
               ELSE /\ state' = "SHOWING_SEQUENCE"
                    /\ sequenceLength' = 1
                    /\ currentScore' = 0
                    /\ currentStep' = 0)]_vars
  /\ [][(state = "IDLE" /\ state' # "IDLE")
        => \/ (IsUpdate /\ ev'.polled /\ ev'.pressed # NONE)
           \/ ev'.op \in {"startGame", "startMultiplayerGame"}]_vars

\* C25 witness: after a pass-and-play game was stopped with reset(), a press
\* in IDLE has started a game.
C25_Witness ==
  /\ state = "SHOWING_SEQUENCE"
  /\ ev.op = "update" /\ ev.polled /\ ev.pressed # NONE
  /\ ev.elapsed = 0
  /\ players[0].hasPlayed
  /\ sequenceLength = 1
  /\ currentScore = 0
  /\ currentStep = 0

\* The profile of each tier as config.h gives it, with the length cut as the
\* model cuts lengths.
TierProfile(name, speed, duration, maxLength, window) ==
  [name |-> name, sequenceSpeed |-> speed, toneDuration |-> duration,
   maxLength |-> ScaledLen(maxLength), timingWindow |-> window]

\* C26: getDifficultySettings returns, for every level 0..3, that tier's own
\* profile and, for every level 4..255, the profile of DEFAULT_DIFFICULTY
\* (tier 1, Medium); it is defined on every level.
C26_LookupTotal ==
  ev.op = "getDifficultySettings"
    => /\ ev.arg = 0 => ev.result = TierProfile("Easy", 800, 600, 8, 3000)
       /\ ev.arg = 1 => ev.result = TierProfile("Medium", 600, 400, 14, 2000)
       /\ ev.arg = 2 => ev.result = TierProfile("Hard", 400, 250, 20, 1500)
       /\ ev.arg = 3 => ev.result = TierProfile("Expert", 250, 150, 31, 1000)
       /\ ev.arg > 3 => ev.result = TierProfile("Medium", 600, 400, 14, 2000)

\* C26 witness: the lookup of the largest level a uint8_t holds.
C26_Witness ==
  /\ ev.op = "getDifficultySettings"
  /\ ev.arg = 255
  /\ ev.result.name = "Medium"
  /\ ev.result.timingWindow = 2000

\* C27: the row getDifficultySettings returns for a tier has sequenceSpeed,
\* toneDuration and timingWindow no larger, and maxLength no smaller, than the
\* row of every tier with a smaller index, and its maxLength is at most
\* MAX_SEQUENCE_LENGTH (31).
C27_MonotonicTiers ==
  (ev.op = "getDifficultySettings" /\ ev.arg <= 3)
    => /\ ev.preset.maxLength <= 31
       /\ \A i \in 0 .. 3 :
            i < ev.arg
              => /\ ev.preset.sequenceSpeed <= lookup(presets, i).sequenceSpeed
                 /\ ev.preset.toneDuration <= lookup(presets, i).toneDuration
                 /\ ev.preset.timingWindow <= lookup(presets, i).timingWindow
                 /\ ev.preset.maxLength >= lookup(presets, i).maxLength

\* C27 witness: the lookup of the last tier, whose maxLength is the whole
\* sequence buffer.
C27_Witness ==
  /\ ev.op = "getDifficultySettings"
  /\ ev.arg = 3
  /\ ev.preset.maxLength = MAX_SEQUENCE_LENGTH
  /\ ev.preset.timingWindow < lookup(presets, 2).timingWindow

\* C28 as stated: startGame() and reset() never run while update() is inside
\* a playback burst, and the first tick to end after a reset(), if it polled
\* no press, leaves the engine in IDLE.
C28_CommandsBetweenTicks ==
  [][/\ (ev'.op \in {"reset", "startGame"} => ~playback)
     /\ ((ev.op = "reset" /\ IsUpdate /\ ev'.pressed = NONE)
           => state' = "IDLE")]_vars

\* C29: the tick of SHOWING_SEQUENCE emits, after its lead-in wait, exactly
\* the elements sequence[0] .. sequence[sequenceLength-1] in index order, each
\* as LED on, tone for toneDuration, LED off, with a wait of sequenceSpeed
\* between two elements and nothing after the last, and leaves the engine in
\* WAITING_INPUT with the cursor at 0 and the input timer at 0.
C29_PlaybackBurst ==
  [][(IsUpdate /\ state = "SHOWING_SEQUENCE")
     => (/\ state' = "WAITING_INPUT"
         /\ currentStep' = 0
         /\ inputElapsed' = 0
         /\ Len(ev'.output) = 4 * sequenceLength
         /\ ev'.output[1].kind = "delay"
         /\ \A i \in 0 .. (sequenceLength - 1) :
              /\ ev'.output[4 * i + 2] =
                   [kind |-> "on", color |-> sequence[i], ms |-> 0]
              /\ ev'.output[4 * i + 3] =
                   [kind |-> "tone", color |-> sequence[i],
                    ms |-> settings.toneDuration]
              /\ ev'.output[4 * i + 4] =
                   [kind |-> "off", color |-> sequence[i], ms |-> 0]
         /\ \A i \in 0 .. (sequenceLength - 2) :
              ev'.output[4 * i + 5] =
                [kind |-> "delay", color |-> NONE,
                 ms |-> settings.sequenceSpeed])]_vars

\* C29 witness: a round of three different-looking elements has been played
\* back on Medium.
C29_Witness ==
  /\ state = "WAITING_INPUT"
  /\ ev.op = "update"
  /\ "output" \in DOMAIN ev
  /\ Len(ev.output) = 12
  /\ sequenceLength = 3
  /\ sequence[0] # sequence[1]
  /\ ev.output[12] = [kind |-> "off", color |-> sequence[2], ms |-> 0]
  /\ ev.output[7].ms = 400
  /\ currentStep = 0
  /\ inputElapsed = 0

\* C30: the tick that closes a correctly repeated round without ending the
\* game makes sequenceLength its old value + 1, leaves every element below
\* the old length as it is, and goes on to show the longer sequence.
C30_GrowsByOne ==
  [][(IsUpdate /\ state = "INPUT_CORRECT" /\ state' # "GAME_OVER")
     => (/\ sequenceLength' = sequenceLength + 1
         /\ \A i \in SeqIndex :
              i < sequenceLength => sequence'[i] = sequence[i]
         /\ state' = "SHOWING_SEQUENCE")]_vars

\* C30 witness: the second round was repeated and a third element added to
\* two different ones.
C30_Witness ==
  /\ state = "SHOWING_SEQUENCE"
  /\ ev.op = "update"
  /\ currentScore = 2
  /\ sequenceLength = 3
  /\ sequence[0] # sequence[1]
  /\ sequence[2] \in Color

\* C31: in the round of length settings.maxLength a wrong press on the last
\* element, after the earlier ones were repeated, fails the round in that tick
\* (INPUT_WRONG, never INPUT_CORRECT) with the score at maxLength - 1; the
\* next tick ends the turn with that score and without a win: GAME_OVER with
\* currentScore = maxLength - 1 in single-player, the participant's record
\* closed with maxLength - 1 in pass-and-play, where the engine goes to
\* GAME_OVER unless another participant is still to play.
C31_LossAtMaxLength ==
  [][/\ ((/\ state = "WAITING_INPUT" /\ IsUpdate
          /\ sequenceLength = settings.maxLength
          /\ currentStep = sequenceLength - 1
          /\ ev'.polled /\ ev'.pressed # NONE
          /\ ev'.pressed # sequence[currentStep])
         => (/\ state' = "INPUT_WRONG"
             /\ currentScore' = settings.maxLength - 1
             /\ currentStep' = currentStep
             /\ highScores' = highScores))
     /\ ((/\ state = "INPUT_WRONG" /\ IsUpdate
          /\ sequenceLength = settings.maxLength)
         => IF gameMode = "SINGLE_PLAYER"
            THEN /\ state' = "GAME_OVER"
                 /\ currentScore' = settings.maxLength - 1
            ELSE /\ players'[currentPlayerIndex] =
                      [score |-> settings.maxLength - 1, hasPlayed |-> TRUE]
                 /\ state' = (IF Unplayed = {} THEN "GAME_OVER"
                              ELSE "SHOWING_SEQUENCE"))]_vars

\* C31 witness: on Medium the first two elements of the round of maximum
\* length were repeated and the press on the third was the wrong color.
C31_Witness ==
  /\ state = "INPUT_WRONG"
  /\ ev.op = "update" /\ ev.polled /\ ev.pressed # NONE
  /\ sequenceLength = settings.maxLength
  /\ sequenceLength = 3
  /\ currentStep = 2
  /\ ev.pressed # sequence[2]
  /\ currentScore = 2

\* C32: a burst begins only in SHOWING_SEQUENCE and outside any other burst;
\* while update() is inside playSequence() no step samples the buttons or
\* compares a press (nothing is polled, the round is neither completed nor
\* failed, the cursor does not advance), no further burst begins, and the only
\* step of update() is the end of the burst, which leaves the engine in
\* WAITING_INPUT with the cursor at 0.
C32_NoPollInsideBurst ==
  [][/\ ((~playback /\ playback')
           => (state = "SHOWING_SEQUENCE" /\ UNCHANGED <<state, currentStep, ev>>))
     /\ (playback
           => (/\ ~ev'.polled
               /\ ev'.pressed = NONE
               /\ state' \notin {"INPUT_CORRECT", "INPUT_WRONG"}
               /\ currentStep' \in {currentStep, 0}
               /\ (playback' => ev'.op \in {"reset", "startGame"})
               /\ (IsUpdate
                     => (/\ ~playback'
                         /\ "output" \in DOMAIN ev'
                         /\ state' = "WAITING_INPUT"
                         /\ currentStep' = 0))))]_vars

\* C32 witness: the burst of the second round is under way, the cursor still
\* where the first round left it.
C32_Witness ==
  /\ playback
  /\ state = "SHOWING_SEQUENCE"
  /\ ev.op = "update"
  /\ sequenceLength = 2
  /\ currentScore = 1
  /\ currentStep = 1

\* C33 as stated: whenever the engine is in SHOWING_SEQUENCE or WAITING_INPUT
\* every element sequence[0 .. sequenceLength-1] is a playable color, never
\* NONE, whatever games were played and however the game was started.
C33_SequenceAllColors ==
  state \in {"SHOWING_SEQUENCE", "WAITING_INPUT"}
    => \A i \in SeqIndex : i < sequenceLength => sequence[i] \in Color

\* C34 as stated: while gameMode is PASS_AND_PLAY, currentPlayerIndex is below
\* numPlayers, and in SHOWING_SEQUENCE and WAITING_INPUT the current
\* participant has not played yet.
C34_CurrentParticipantUnplayed ==
  gameMode = "PASS_AND_PLAY"
    => (/\ currentPlayerIndex < numPlayers
        /\ (state \in {"SHOWING_SEQUENCE", "WAITING_INPUT"}
              => ~players[currentPlayerIndex].hasPlayed))

\* C35 as stated: a step that is not a call of startMultiplayerGame leaves the
\* record (hasPlayed and score) of every participant who has played as it
\* is.
C35_PlayedRecordFrozen ==
  [][ev'.op # "startMultiplayerGame"
     => \A i \in PlayerIndex :
          players[i].hasPlayed => players'[i] = players[i]]_vars

\* C36: after begin() no step lowers an entry of highScores; the table changes
\* only in a tick that ends a game, and then only in the entry of the tier the
\* engine is set to in that tick, which becomes the final score; the entries
\* of the other tiers stay as they are.
C36_HighScoresMonotone ==
  [][/\ \A t \in 0 .. (NUM_DIFFICULTIES - 1) :
          /\ highScores'[t] >= highScores[t]
          /\ (t # currentDifficulty => highScores'[t] = highScores[t])
     /\ (highScores' # highScores
           => (/\ IsUpdate
               /\ state \in {"INPUT_WRONG", "INPUT_CORRECT"}
               /\ state' = "GAME_OVER"
               /\ currentDifficulty' = currentDifficulty
               /\ highScores'[currentDifficulty] = currentScore'))]_vars

\* C36 witness: a game on Medium ended with two points, above the stored best
\* of 1, which the entry of Easy still holds.
C36_Witness ==
  /\ state = "GAME_OVER"
  /\ ev.op = "update" /\ ev.highScore
  /\ currentDifficulty = MEDIUM
  /\ currentScore = 2
  /\ highScores[MEDIUM] = 2
  /\ highScores[0] = 1

\* The debounced state of button c goes from released to pressed in this step.
Rises(c) == ~buttonStates[c].current /\ buttonStates'[c].current

\* C37 as stated: in every cycle of update(), getJustPressed() returns color
\* c exactly when the debounced state of button c went from released to
\* pressed in that cycle.
C37_EveryPressReported ==
  [][IsUpdate => \A c \in Color : (Rises(c) <=> ev'.pressed = c)]_vars

\* C37 amended: wasPressed(c) is true after exactly the update() in which the
\* debounced state of c went from released to pressed, so not again while the
\* button stays held; getJustPressed() returns in that cycle the lowest color
\* whose wasPressed is true and NONE when there is none, so that a press is
\* handed to the engine in at most one cycle, and in none when a button of a
\* lower color rose in the same cycle.
C37_EdgeLastsOneCycle ==
  [][IsUpdate
     => (/\ \A c \in Color : wasPressed(buttonStates', c) <=> Rises(c)
         /\ \A c \in Color :
              ev'.pressed = c
                <=> (Rises(c) /\ \A d \in Color : Rises(d) => c <= d)
         /\ (ev'.pressed = NONE <=> \A c \in Color : ~Rises(c))
         /\ \A c \in Color :
              buttonStates[c].current => ev'.pressed # c)]_vars

\* C37 witness: both buttons rose in the same cycle, and RED was reported.
C37_Witness ==
  /\ ev.op = "update"
  /\ ev.pressed = RED
  /\ wasPressed(buttonStates, RED)
  /\ wasPressed(buttonStates, GREEN)

\* C38 as stated: the debounced state of a button changes, and a press is
\* reported, only when the level of its pin has differed from the debounced
\* state for at least BUTTON_DEBOUNCE_MS, however far apart the calls of
\* update() are.
C38_DebouncedChangeOnlyWhenStable ==
  [][\A c \in Color :
       (buttonStates'[c].current # buttonStates[c].current
          \/ (IsUpdate /\ ev'.pressed = c))
         => pins[c].differsFor >= BUTTON_DEBOUNCE_MS]_vars

\* C39 as stated: the chip goes to deep sleep only with the engine in IDLE or
\* GAME_OVER and with at least DEEP_SLEEP_TIMEOUT_MS passed since the activity
\* timer was last reset.
C39_NoSleepWhileActive ==
  [][(powerManager'.asleep /\ ~powerManager.asleep)
     => (/\ ~isActive(state)
         /\ powerManager.timeSinceActivity >= DEEP_SLEEP_TIMEOUT_MS)]_vars

\* C40: the elapsed time handleWaitingInput and handleGameOver test, computed
\* as millis() - lastInputTime and millis() - stateStartTime modulo 2^32, is
\* the time that has really passed since the stamp was taken, also when
\* millis() has wrapped to 0 in between; so the round times out exactly when
\* more than the input window has really passed, and a tick in GAME_OVER
\* polls exactly when more than the hold has really passed.
C40_ElapsedAcrossWrap ==
  [][/\ ((IsUpdate /\ state = "WAITING_INPUT")
           => (/\ ev'.elapsed = clock'.tested
               /\ ((state' = "INPUT_WRONG" /\ ~ev'.polled)
                     <=> clock'.tested > settings.timingWindow)))
     /\ ((IsUpdate /\ state = "GAME_OVER")
           => (/\ ev'.elapsed = clock'.tested
               /\ (ev'.polled <=> clock'.tested > GAME_OVER_HOLD_MS)))]_vars

\* C40 witness: a round shown before millis() wrapped was still inside its
\* window two time steps later, after the wrap, and a press was accepted.
C40_Witness ==
  /\ ev.op = "update" /\ ev.polled /\ ev.pressed # NONE
  /\ state = "INPUT_CORRECT"
  /\ ev.elapsed = 2 * TimeStep
  /\ clock.tested = 2 * TimeStep
  /\ clock.millis[1] = 0
  /\ clock.lastInputTime[1] = HALF - 1

====
